---------------------------- MODULE Spec2Model ----------------------------
(***************************************************************************)
(* Model of the Montreal events pipeline: the window filter, the hard      *)
(* filter, the semantic ranker, the judge selector and the two drivers     *)
(* (run_pipeline of the API, run of the weekly flow).                      *)
(*                                                                         *)
(* Text is a sequence of lexemes (words, numbers, separators); a nullable  *)
(* value is a sequence of length at most one (<<>> is NaN / None).         *)
(* A DataFrame is [cols, rows]: the set of its columns and its rows.       *)
(***************************************************************************)
EXTENDS Integers, Sequences, FiniteSets, TLC

VARIABLES
    pc,          \* position of the run (or of the operation under study)
    mode,        \* "api" (app/pipeline.py) or "weekly" (graph/weekly_flow.py)
    now,         \* local wall-clock time of the run, in ticks
    window_days, \* window_days / WINDOW_DAYS
    shortlist_k, \* shortlist_k / SHORTLIST_K
    final_n,     \* final_n / TOP_N
    groq_key,    \* GROQ_API_KEY is set
    metric,      \* the metric of the index FAISS.from_embeddings builds
    prefs,       \* the preferences passed to run_pipeline
    prefsFile,   \* the content of preferences.json (<<>>: missing or not JSON)
    df_raw,      \* collect()
    df_clean,    \* clean(df_raw)
    df_week,     \* after the window filter
    df_hard,     \* after the hard filter
    df_ranked,   \* rank(df_hard)
    df_short,    \* the shortlist
    resp,        \* the judge's raw response
    chosen,      \* what select_events_with_llm returned
    df_top,      \* the final selection
    pref_text,   \* the query text the ranker embedded
    md,          \* the outcome of the run: a report or an exception
    files,       \* data/ files the runs write
    conc,        \* the concurrent API requests: position and locals of each
    access       \* the accesses of the concurrent requests to files

cfgVars == <<mode, now, window_days, shortlist_k, final_n, groq_key, metric,
             prefs, prefsFile>>
concVars == <<conc, access>>
vars == <<pc, cfgVars, df_raw, df_clean, df_week, df_hard, df_ranked, df_short, resp,
          chosen, df_top, pref_text, md, files, concVars>>

----------------------------------------------------------------------------
(* Bounds *)

MaxRows == 2
MaxNow == 3
MaxDays == 2
TicksPerDay == 2

MaxTime == MaxNow + (MaxDays + 1) * TicksPerDay

----------------------------------------------------------------------------
(* Nullable values and text *)

None == <<>>
Some(x) == <<x>>
IsNA(o) == o = <<>>
Val(o) == o[1]

Min(a, b) == IF a <= b THEN a ELSE b
Max(a, b) == IF a >= b THEN a ELSE b

\* str.lower(), lexeme by lexeme
LowerLex(x) ==
    CASE x = "Gratuit" -> "gratuit"
      [] x = "Free" -> "free"
      [] x = "Verdun" -> "verdun"
      [] x = "Enfants" -> "enfants"
      [] x = "Adultes" -> "adultes"
      [] x = "En" -> "en"
      [] x = "Concert" -> "concert"
      [] OTHER -> x

Lower(s) == [i \in DOMAIN s |-> LowerLex(s[i])]

\* `sub in s`, str.contains(sub)
Contains(s, sub) ==
    \E i \in 0..(Len(s) - Len(sub)) : SubSeq(s, i + 1, i + Len(sub)) = sub

RECURSIVE LStrip(_)
LStrip(s) == IF s # <<>> /\ Head(s) = " " THEN LStrip(Tail(s)) ELSE s

RECURSIVE RStrip(_)
RStrip(s) ==
    IF s # <<>> /\ s[Len(s)] = " " THEN RStrip(SubSeq(s, 1, Len(s) - 1)) ELSE s

\* str.strip()
Strip(s) == RStrip(LStrip(s))

\* Series.astype(str): NaN becomes the text "nan"
AsStr(o) == IF IsNA(o) THEN <<"nan">> ELSE Val(o)

\* Series.fillna("")
FillNa(o) == IF IsNA(o) THEN <<>> ELSE Val(o)

NumLex == {"5", "15", "25"}
NumVal(x) == CASE x = "5" -> 5 [] x = "15" -> 15 [] x = "25" -> 25 [] OTHER -> 0


----------------------------------------------------------------------------
(* Records and frames *)

RawCols == {"url_fiche", "titre", "description", "date_debut", "arrondissement",
            "type_evenement", "emplacement", "public_cible", "cout"}

\* A raw date cell: absent, text that is no date, or a local wall-clock time
NoDate == [k |-> "na", t |-> 0]
BadDate == [k |-> "bad", t |-> 0]
DateAt(t) == [k |-> "ok", t |-> t]

BaseRow ==
    [url_fiche |-> None, titre |-> None, description |-> None,
     date_debut |-> NoDate, arrondissement |-> None, type_evenement |-> None,
     emplacement |-> None, public_cible |-> None, cout |-> None,
     start_datetime |-> None, is_free |-> FALSE, score |-> None,
     borough_pref |-> None, combined_score |-> None,
     temp_c |-> None, rain_prob |-> None]

Frame(cols, rows) == [cols |-> cols, rows |-> rows]

IsEmpty(df) == df.rows = <<>>

\* pd.to_datetime(..., errors="coerce"): what is no date becomes NaT
ToDatetime(raw) == IF raw.k = "ok" THEN Some(raw.t) ELSE None

\* clean(df_raw): same rows, with start_datetime and is_free added
clean(raw) ==
    LET cleanRow(r) ==
            [r EXCEPT !.start_datetime = ToDatetime(r.date_debut),
                      !.is_free = Contains(Lower(AsStr(r.cout)), <<"gratuit">>)]
    IN Frame(raw.cols \cup {"start_datetime", "is_free"},
             [i \in DOMAIN raw.rows |-> cleanRow(raw.rows[i])])

----------------------------------------------------------------------------
(* Temporal window filters *)

\* Wall-clock times that do not exist or exist twice in America/Toronto
\* (the daylight-saving changes): here one tick of the second day.
DstTicks == {TicksPerDay + 1}

\* Series.dt.tz_localize(tz, nonexistent="NaT", ambiguous="NaT")
TzLocalize(s) == IF ~IsNA(s) /\ Val(s) \in DstTicks THEN None ELSE s

\* a window filter that is closed at its end
upcoming_window_closed(df, nowT, days) ==
    IF "date_debut" \notin df.cols THEN df
    ELSE LET end == nowT + days * TicksPerDay
             mask(r) == LET s == ToDatetime(r.date_debut)
                        IN ~IsNA(s) /\ Val(s) >= nowT /\ Val(s) <= end
         IN [df EXCEPT !.rows = SelectSeq(@, mask)]

\* app/pipeline.py _upcoming_window
pipeline_upcoming_window(df, nowT, days) ==
    IF "date_debut" \notin df.cols THEN df
    ELSE LET end == nowT + days * TicksPerDay
             mask(r) == LET s == ToDatetime(r.date_debut)
                        IN ~IsNA(s) /\ Val(s) >= nowT /\ Val(s) < end
         IN [df EXCEPT !.rows = SelectSeq(@, mask)]

\* graph/weekly_flow.py _upcoming_window
weekly_upcoming_window(df, nowT, days) ==
    IF IsEmpty(df) \/ "start_datetime" \notin df.cols THEN df
    ELSE LET start_of_today == (nowT \div TicksPerDay) * TicksPerDay
             window_start == start_of_today
             window_end == window_start + days * TicksPerDay
             mask(r) == LET s == TzLocalize(r.start_datetime)
                        IN ~IsNA(s) /\ Val(s) >= window_start /\ Val(s) < window_end
         IN [df EXCEPT !.rows = SelectSeq(@, mask)]

----------------------------------------------------------------------------
(* Preference configuration *)

\* hard_filters: a list rule is a sequence (no rule: empty), a flag or a
\* number is nullable (no rule: None). wrong names the rules whose value has
\* another type than these: a list rule in wrong holds a number other than
\* 0, max_price in wrong holds a text that is no number.
EmptyHF ==
    [arrondissement_allow |-> <<>>, type_evenement_allow |-> <<>>,
     emplacement_exclude |-> <<>>, audience_allow |-> <<>>,
     exclude_children |-> None, max_price |-> None, free_only |-> None,
     wrong |-> {}]

\* the rules that are lists, and the column each is applied to
ListRules ==
    [arrondissement_allow |-> "arrondissement",
     type_evenement_allow |-> "type_evenement",
     emplacement_exclude |-> "emplacement",
     audience_allow |-> "public_cible"]

\* preferences: likes and hard_filters (None: the key is missing)
Prefs(likes, hard) == [likes |-> likes, hard_filters |-> hard]

\* X.get("hard_filters", {})
GetHard(p) == IF IsNA(p.hard_filters) THEN EmptyHF ELSE Val(p.hard_filters)

\* Series.isin(list): NaN is in no list
IsIn(cell, list) == ~IsNA(cell) /\ \E i \in DOMAIN list : list[i] = Val(cell)

----------------------------------------------------------------------------
(* Hard constraint filter of the API: app/pipeline.py _apply_hard_filters *)

\* txt.replace("$", " ").replace(",", " ")
ReplaceSep(s) == [i \in DOMAIN s |-> IF s[i] \in {"$", ","} THEN " " ELSE s[i]]

\* length of the longest prefix of s without a blank
RECURSIVE RunLen(_)
RunLen(s) == IF s = <<>> \/ Head(s) = " " THEN 0 ELSE 1 + RunLen(Tail(s))

\* str.split()
RECURSIVE Split(_)
Split(s) ==
    IF s = <<>> THEN <<>>
    ELSE IF Head(s) = " " THEN Split(Tail(s))
    ELSE <<SubSeq(s, 1, RunLen(s))>> \o Split(SubSeq(s, RunLen(s) + 1, Len(s)))

\* float(tok) succeeds on a token that is one number
IsFloat(tok) == Len(tok) = 1 /\ tok[1] \in NumLex

\* the loop of _price_ok: the first token float() accepts, None if there is none
RECURSIVE FirstFloat(_)
FirstFloat(toks) ==
    IF toks = <<>> THEN None
    ELSE IF IsFloat(Head(toks)) THEN Some(NumVal(Head(toks)[1]))
    ELSE FirstFloat(Tail(toks))

_price_ok(v, max_price) ==
    IF IsNA(v) THEN TRUE
    ELSE LET txt == Lower(Strip(Val(v)))
             num == FirstFloat(Split(ReplaceSep(txt)))
         IN IF Contains(txt, <<"gratuit">>) \/ Contains(txt, <<"free">>) THEN TRUE
            ELSE IsNA(num) \/ Val(num) <= max_price

pipeline_apply_hard_filters(df, hard) ==
    LET allow_boro == hard.arrondissement_allow
        allow_types == hard.type_evenement_allow
        excl_emp == hard.emplacement_exclude
        allow_aud == hard.audience_allow
        max_price == hard.max_price
        keepBoro(r) == IsIn(r.arrondissement, allow_boro)
        keepType(r) == IsIn(r.type_evenement, allow_types)
        keepEmp(r) == ~IsIn(r.emplacement, excl_emp)
        keepAud(r) == IsIn(r.public_cible, allow_aud)
        keepPrice(r) == _price_ok(r.cout, Val(max_price))
        out1 == IF allow_boro # <<>> /\ "arrondissement" \in df.cols
                THEN SelectSeq(df.rows, keepBoro) ELSE df.rows
        out2 == IF allow_types # <<>> /\ "type_evenement" \in df.cols
                THEN SelectSeq(out1, keepType) ELSE out1
        out3 == IF excl_emp # <<>> /\ "emplacement" \in df.cols
                THEN SelectSeq(out2, keepEmp) ELSE out2
        out4 == IF allow_aud # <<>> /\ "public_cible" \in df.cols
                THEN SelectSeq(out3, keepAud) ELSE out3
        out5 == IF ~IsNA(max_price) /\ "cout" \in df.cols
                THEN SelectSeq(out4, keepPrice) ELSE out4
    IN [df EXCEPT !.rows = out5]

\* what _apply_hard_filters raises, None when it returns: isin() of a number
\* is a TypeError, float() of a text that is no number a ValueError, for the
\* first cost label that _price_ok compares with max_price
pipeline_hard_raises(df, hard) ==
    LET out4 == pipeline_apply_hard_filters(df, hard).rows
        compared(r) ==
            /\ ~IsNA(r.cout)
            /\ LET txt == Lower(Strip(Val(r.cout)))
               IN /\ ~Contains(txt, <<"gratuit">>) /\ ~Contains(txt, <<"free">>)
                  /\ ~IsNA(FirstFloat(Split(ReplaceSep(txt))))
    IN IF \E rule \in hard.wrong \cap DOMAIN ListRules :
             ListRules[rule] \in df.cols
       THEN Some("TypeError")
       ELSE IF /\ "max_price" \in hard.wrong /\ "cout" \in df.cols
               /\ \E i \in DOMAIN out4 : compared(out4[i])
       THEN Some("ValueError")
       ELSE None

----------------------------------------------------------------------------
(* Hard constraint filter of the weekly flow: graph/weekly_flow.py *)

LowerAll(list) == [i \in DOMAIN list |-> Lower(list[i])]

InList(x, list) == \E i \in DOMAIN list : list[i] = x

\* a children pattern that misses the youth audiences
MatchesEnfantOnly(s) ==
    \E i \in DOMAIN s : s[i] \in {"enfant"}

\* aud.str.contains(r"\benfant|jeunesse|jeunes|ados\b")
MatchesChildren(s) ==
    \E i \in DOMAIN s : s[i] \in {"enfant", "enfants", "jeunesse", "jeunes", "ados"}

\* cost.str.extract(r"(\d+[\.,]?\d*)"): the first number anywhere in the text
RECURSIVE FirstNumber(_)
FirstNumber(s) ==
    IF s = <<>> THEN None
    ELSE IF Head(s) \in NumLex THEN Some(NumVal(Head(s)))
    ELSE FirstNumber(Tail(s))

\* json.load(open(prefs_path)).get("hard_filters", {}), {} when that raises
LoadHard(file) == IF IsNA(file) THEN EmptyHF ELSE GetHard(Val(file))

weekly_apply_hard_filters(df, file) ==
    IF IsEmpty(df) THEN df
    ELSE
    LET hf == LoadHard(file)
        allow_aud == LowerAll(hf.audience_allow)
        exclude_children ==
            IF IsNA(hf.exclude_children) THEN TRUE ELSE Val(hf.exclude_children)
        excl_emp == LowerAll(hf.emplacement_exclude)
        allow_types == LowerAll(hf.type_evenement_allow)
        allow_arr == hf.arrondissement_allow
        allow_arr_lc == LowerAll(allow_arr)
        free_only == IF IsNA(hf.free_only) THEN FALSE ELSE Val(hf.free_only)
        max_price == hf.max_price
        keepAud(r) ==
            LET aud == Lower(FillNa(r.public_cible))
            IN /\ (aud = <<>> \/ (allow_aud # <<>> => InList(aud, allow_aud)))
               /\ (exclude_children => ~MatchesChildren(aud))
        keepEmp(r) ==
            LET emp == Lower(FillNa(r.emplacement))
            IN \A i \in DOMAIN excl_emp : ~Contains(emp, excl_emp[i])
        keepType(r) == InList(Lower(FillNa(r.type_evenement)), allow_types)
        keepArr(r) == InList(Lower(FillNa(r.arrondissement)), allow_arr_lc)
        keepFree(r) == Contains(Lower(AsStr(r.cout)), <<"gratuit">>)
        keepPrice(r) ==
            LET cost == Lower(AsStr(r.cout))
                price_num == FirstNumber(cost)
            IN Contains(cost, <<"gratuit">>)
               \/ (~IsNA(price_num) /\ Val(price_num) <= Val(max_price))
        df1 == IF "public_cible" \in df.cols
               THEN SelectSeq(df.rows, keepAud) ELSE df.rows
        df2 == IF "emplacement" \in df.cols /\ excl_emp # <<>>
               THEN SelectSeq(df1, keepEmp) ELSE df1
        df3 == IF "type_evenement" \in df.cols /\ allow_types # <<>>
               THEN SelectSeq(df2, keepType) ELSE df2
        df4 == IF "arrondissement" \in df.cols /\ allow_arr # <<>>
               THEN SelectSeq(df3, keepArr) ELSE df3
        df5 == IF "cout" \in df.cols
               THEN IF free_only THEN SelectSeq(df4, keepFree)
                    ELSE IF ~IsNA(max_price) THEN SelectSeq(df4, keepPrice)
                    ELSE df4
               ELSE df4
    IN [df EXCEPT !.rows = df5]

\* what _apply_hard_filters raises, None when it returns: the comprehensions
\* over a list rule iterate a number (TypeError); a max_price that is no
\* number fails isinstance and is passed over
weekly_hard_raises(df, file) ==
    IF IsEmpty(df) THEN None
    ELSE IF LoadHard(file).wrong \cap DOMAIN ListRules # {}
    THEN Some("TypeError")
    ELSE None

----------------------------------------------------------------------------
(* Semantic ranker: agents/ranker_faiss.py *)

SnippetLen == 300
UnitScale == 5

\* the fixed statement used when likes is empty
DefaultPrefText == <<"evenements", " ", "publics">>

\* _load_preferences: {} when preferences.json cannot be read
_load_preferences(file) == IF IsNA(file) THEN Prefs(<<>>, None) ELSE Val(file)

_build_pref_text(p) ==
    LET likes == Strip(p.likes)
    IN IF likes # <<>> THEN likes ELSE DefaultPrefText

\* _prep_event_text raises on a NaN description: (NaN or "") is NaN, which
\* has no strip()
PrepRaises(df) ==
    "description" \in df.cols
    /\ \E i \in DOMAIN df.rows : IsNA(df.rows[i].description)

\* no stage creates a "title" column, so the text is the description snippet
_prep_event_text(cols, row) ==
    LET title == <<>>
        desc == IF "description" \in cols THEN Strip(Val(row.description)) ELSE <<>>
        snippet == IF Len(desc) > SnippetLen
                   THEN SubSeq(desc, 1, SnippetLen) \o <<"...">> ELSE desc
    IN IF title # <<>> /\ snippet # <<>> THEN title \o <<" ", "|", " ">> \o snippet
       ELSE IF title # <<>> THEN title ELSE snippet

\* the embedding capability: a vector per text
Embed(text) ==
    IF Contains(text, <<"jazz">>) THEN <<10, 0>>
    ELSE IF Contains(text, <<"hockey">>) THEN <<0, 5>>
    ELSE IF Contains(text, <<"expo">>) THEN <<6, 8>>
    ELSE <<8, 6>>

Norm(v) == CHOOSE n \in 0..(v[1] + v[2]) : n * n = v[1] * v[1] + v[2] * v[2]

\* _l2_normalize: a vector of length UnitScale
_l2_normalize(v) ==
    <<(v[1] * UnitScale) \div Norm(v), (v[2] * UnitScale) \div Norm(v)>>

Dot(a, b) == a[1] * b[1] + a[2] * b[2]

SqDist(a, b) ==
    (a[1] - b[1]) * (a[1] - b[1]) + (a[2] - b[2]) * (a[2] - b[2])

RECURSIVE InsertDesc(_, _)
InsertDesc(x, s) ==
    IF s = <<>> THEN <<x>>
    ELSE IF x >= Head(s) THEN <<x>> \o s
    ELSE <<Head(s)>> \o InsertDesc(x, Tail(s))

RECURSIVE SortDesc(_)
SortDesc(s) == IF s = <<>> THEN <<>> ELSE InsertDesc(Head(s), SortDesc(Tail(s)))

Reverse(s) == [i \in DOMAIN s |-> s[Len(s) + 1 - i]]

\* index.search(pvec, k = N): D[0], the N distances, nearest neighbour first:
\* inner products, largest first, or squared L2 distances, smallest first
IndexSearch(X, pvec, m) ==
    IF m = "ip" THEN SortDesc([i \in DOMAIN X |-> Dot(X[i], pvec)])
    ELSE Reverse(SortDesc([i \in DOMAIN X |-> SqDist(X[i], pvec)]))

Perms(n) == {p \in [1..n -> 1..n] : \A i, j \in 1..n : p[i] = p[j] => i = j}

\* sort_values(col, ascending=False) with the default, unstable sort: any
\* order of the rows in which the column does not increase
SortValuesDesc(rows, keys) ==
    {[i \in DOMAIN rows |-> rows[p[i]]] :
        p \in {q \in Perms(Len(rows)) :
                 \A i, j \in DOMAIN rows : i < j => keys[q[i]] >= keys[q[j]]}}

ScoreKey(r) == Val(r.score)

\* _rank_faiss: the frames it can return
_rank_faiss(df, texts, ptext, m) ==
    LET X == [i \in DOMAIN texts |-> _l2_normalize(Embed(texts[i]))]
        pvec == _l2_normalize(Embed(ptext))
        scores == IndexSearch(X, pvec, m)
        out == [i \in DOMAIN df.rows |-> [df.rows[i] EXCEPT !.score = Some(scores[i])]]
    IN {Frame(df.cols \cup {"score"}, rows) :
           rows \in SortValuesDesc(out, [i \in DOMAIN out |-> ScoreKey(out[i])])}

\* rank(df), for a frame on which _prep_event_text does not raise
rank(df, file, m) ==
    IF IsEmpty(df) THEN {Frame(df.cols \cup {"score"}, <<>>)}
    ELSE LET texts == [i \in DOMAIN df.rows |-> _prep_event_text(df.cols, df.rows[i])]
         IN _rank_faiss(df, texts, _build_pref_text(_load_preferences(file)), m)

----------------------------------------------------------------------------
(* Judge selector and digest composer: agents/summarizer.py *)

\* a head that cuts one row too many
HeadRowsShort(rows, n) ==
    SubSeq(rows, 1, Min(n, Len(rows)) - 1)

\* DataFrame.head(n): the first n rows; all but the last -n when n < 0
HeadRows(rows, n) ==
    IF n >= 0 THEN SubSeq(rows, 1, Min(n, Len(rows)))
    ELSE SubSeq(rows, 1, Max(0, Len(rows) + n))

\* _rows_to_min_json raises on a NaN title or description: (NaN or "") is
\* NaN, which cannot be sliced
RowsJsonRaises(d) ==
    \E i \in DOMAIN d.rows :
        \/ "titre" \in d.cols /\ IsNA(d.rows[i].titre)
        \/ "description" \in d.cols /\ IsNA(d.rows[i].description)

\* The judge's raw response: the call raised, the text is no JSON, the JSON
\* is no object, the object has no selected_urls, or it has the list urls.
Response(k, urls) == [k |-> k, urls |-> urls]

\* What select_events_with_llm does: return None, return a list, raise
ReturnsNone == [k |-> "none", urls |-> <<>>, what |-> ""]
ReturnsList(urls) == [k |-> "list", urls |-> urls, what |-> ""]
Raises(what) == [k |-> "raise", urls |-> <<>>, what |-> what]

\* keep_urls: the shortlist's url_fiche column, fillna(""), as text
keep_urls(d) ==
    IF "url_fiche" \in d.cols
    THEN {FillNa(d.rows[i].url_fiche) : i \in DOMAIN d.rows} ELSE {}

InSet(x, S) == x \in S

\* select_events_with_llm(df_short, prefs_path, final_n)
select_events_with_llm(d, key, r) ==
    IF IsEmpty(d) THEN ReturnsList(<<>>)
    ELSE IF ~key THEN ReturnsNone
    ELSE IF RowsJsonRaises(d) THEN Raises("TypeError")
    ELSE IF r.k \in {"raise", "notjson", "notobject"} THEN ReturnsNone
    ELSE IF r.k = "nofield" THEN ReturnsList(<<>>)
    ELSE LET keep == keep_urls(d)
             kept(u) == InSet(u, keep)
         IN ReturnsList(SelectSeq(r.urls, kept))

\* `chosen and isinstance(chosen, list)`
IsChosen(c) == c.k = "list" /\ c.urls # <<>>

\* df_short[df_short["url_fiche"].isin(chosen)]
RowsChosen(d, urls) ==
    LET picked(row) == IsIn(row.url_fiche, urls) IN SelectSeq(d.rows, picked)

\* df_short[~df_short["url_fiche"].isin(chosen)]
RowsNotChosen(d, urls) ==
    LET left(row) == ~IsIn(row.url_fiche, urls) IN SelectSeq(d.rows, left)

\* app/pipeline.py lines 176-180
pipeline_select(d, c, n) ==
    IF IsChosen(c) THEN [d EXCEPT !.rows = RowsChosen(d, c.urls)]
    ELSE [d EXCEPT !.rows = HeadRows(d.rows, n)]

\* a padding that takes the head of the whole shortlist
weekly_select_head(d, c, n) ==
    IF IsChosen(c)
    THEN LET top == RowsChosen(d, c.urls)
             needed == n - Len(top)
             extras == HeadRows(d.rows, needed)
         IN [d EXCEPT !.rows = IF Len(top) < n THEN top \o extras ELSE top]
    ELSE [d EXCEPT !.rows = HeadRows(d.rows, n)]

\* graph/weekly_flow.py lines 257-266
weekly_select(d, c, n) ==
    IF IsChosen(c)
    THEN LET top == RowsChosen(d, c.urls)
             needed == n - Len(top)
             extras == HeadRows(RowsNotChosen(d, c.urls), needed)
         IN [d EXCEPT !.rows = IF Len(top) < n THEN top \o extras ELSE top]
    ELSE [d EXCEPT !.rows = HeadRows(d.rows, n)]

Report(what) == [k |-> "report", what |-> what]
Exception(what) == [k |-> "exception", what |-> what]
NoOutcome == [k |-> "none", what |-> ""]

\* the fallback bullets call strip() on (value or ""), which raises on NaN
BulletsRaise(d, fields) ==
    \E i \in DOMAIN d.rows : \E f \in fields \cap d.cols : IsNA(d.rows[i][f])

\* summarize_to_markdown(df_selected, run_iso); gen is what the generative
\* capability does when asked: "raise", "empty", "text2" (a text of two
\* characters) or "text"
summarize_to_markdown(d, key, gen) ==
    IF IsEmpty(d) THEN Report("no_matches")
    ELSE IF RowsJsonRaises(d) THEN Exception("TypeError")
    ELSE IF ~key
    THEN IF BulletsRaise(d, {"titre", "url_fiche", "arrondissement", "type_evenement"})
         THEN Exception("AttributeError") ELSE Report("fallback")
    ELSE IF gen \in {"raise", "empty"}
    THEN IF BulletsRaise(d, {"titre", "url_fiche", "arrondissement"})
         THEN Exception("AttributeError") ELSE Report("minimal_fallback")
    ELSE Report(gen)

\* `md, usage = summarize_to_markdown(...)`: unpacking a str into two names
\* raises unless the text has exactly two characters
UnpackPair(m) ==
    IF m.k = "report" /\ m.what # "text2" THEN Exception("ValueError") ELSE m

----------------------------------------------------------------------------
(* Preference-weight blender: graph/weekly_flow.py *)

EMB_WEIGHT == 7
BOROUGH_WEIGHT == 3
WeightScale == 100

\* the index of the last entry of `ordered` whose lower-cased name is name
LastIndex(ordered, name) ==
    CHOOSE i \in DOMAIN ordered :
        /\ Lower(ordered[i]) = name
        /\ \A j \in DOMAIN ordered : Lower(ordered[j]) = name => j <= i

\* weights[name]: 1.0 for the first of n, 0.1 for the last, times WeightScale
RankWeight(ordered, name) ==
    LET n == Len(ordered)
        i == LastIndex(ordered, name) - 1
    IN IF n = 1 THEN WeightScale
       ELSE WeightScale - (i * 9 * WeightScale) \div ((n - 1) * 10)

_add_borough_preference_score(d, file) ==
    LET ordered == LoadHard(file).arrondissement_allow
        pref(row) ==
            LET arr == Lower(FillNa(row.arrondissement))
            IN IF InList(arr, LowerAll(ordered)) THEN RankWeight(ordered, arr) ELSE 0
    IN IF ordered = <<>> \/ "arrondissement" \notin d.cols
       THEN Frame(d.cols \cup {"borough_pref"},
                  [i \in DOMAIN d.rows |-> [d.rows[i] EXCEPT !.borough_pref = Some(0)]])
       ELSE Frame(d.cols \cup {"borough_pref"},
                  [i \in DOMAIN d.rows |->
                      [d.rows[i] EXCEPT !.borough_pref = Some(pref(d.rows[i]))]])

SeqMin(s) == CHOOSE x \in {s[i] : i \in DOMAIN s} : \A i \in DOMAIN s : x <= s[i]
SeqMax(s) == CHOOSE x \in {s[i] : i \in DOMAIN s} : \A i \in DOMAIN s : x >= s[i]

CombinedKey(r) == Val(r.combined_score)[1]

\* a blender that counts a combined_score it finds as borough preference
_combine_scores_accum(d) ==
    IF IsEmpty(d) THEN {d}
    ELSE
    LET total == EMB_WEIGHT + BOROUGH_WEIGHT
        s == [i \in DOMAIN d.rows |-> Val(d.rows[i].score)]
        s_min == SeqMin(s)
        s_max == SeqMax(s)
        span == IF s_max > s_min THEN s_max - s_min ELSE 2
        s_norm(i) == IF s_max > s_min THEN s[i] - s_min ELSE 1
        b(i) == IF "combined_score" \in d.cols THEN WeightScale
                ELSE IF "borough_pref" \in d.cols THEN Val(d.rows[i].borough_pref)
                ELSE 0
        combined(i) ==
            <<EMB_WEIGHT * s_norm(i) * WeightScale + BOROUGH_WEIGHT * b(i) * span,
              total * span * WeightScale>>
        out == [i \in DOMAIN d.rows |->
                   [d.rows[i] EXCEPT !.combined_score = Some(combined(i))]]
    IN {Frame(d.cols \cup {"combined_score"}, rows) :
           rows \in SortValuesDesc(out, [i \in DOMAIN out |-> CombinedKey(out[i])])}

\* _combine_scores: combined_score is the fraction <<numerator, denominator>>
\* of emb_w * s_norm + bor_w * b; the frames it can return
_combine_scores(d) ==
    IF IsEmpty(d) THEN {d}
    ELSE
    LET total == EMB_WEIGHT + BOROUGH_WEIGHT
        s == [i \in DOMAIN d.rows |-> Val(d.rows[i].score)]
        s_min == SeqMin(s)
        s_max == SeqMax(s)
        span == IF s_max > s_min THEN s_max - s_min ELSE 2
        s_norm(i) == IF s_max > s_min THEN s[i] - s_min ELSE 1
        b(i) == IF "borough_pref" \in d.cols THEN Val(d.rows[i].borough_pref) ELSE 0
        combined(i) ==
            <<EMB_WEIGHT * s_norm(i) * WeightScale + BOROUGH_WEIGHT * b(i) * span,
              total * span * WeightScale>>
        out == [i \in DOMAIN d.rows |->
                   [d.rows[i] EXCEPT !.combined_score = Some(combined(i))]]
    IN {Frame(d.cols \cup {"combined_score"}, rows) :
           rows \in SortValuesDesc(out, [i \in DOMAIN out |-> CombinedKey(out[i])])}

----------------------------------------------------------------------------
(* Weather enrichment: agents/enricher_weather.py *)

\* enrich_weather: temp_c and rain_prob for the rows that have a start time,
\* when the forecast service answers (wx = "up"); NaN otherwise
enrich_weather(d, wx) ==
    IF IsEmpty(d) THEN d
    ELSE LET enrich(row) ==
                 IF ~IsNA(row.start_datetime) /\ wx = "up"
                 THEN [row EXCEPT !.temp_c = Some(21), !.rain_prob = Some(40)]
                 ELSE row
         IN Frame(d.cols \cup {"temp_c", "rain_prob"},
                  [i \in DOMAIN d.rows |-> enrich(d.rows[i])])

----------------------------------------------------------------------------
(* The drivers: run_pipeline (app/pipeline.py) and run (graph/weekly_flow.py) *)

NoFrame == Frame({}, <<>>)
NoPrefs == Prefs(<<>>, None)
NoResponse == Response("unasked", <<>>)
NoFiles == [p \in {"data/_prefs_api.json", "data/pref_text.txt"} |-> None]

SeqsUpTo(S, n) == UNION {[1..k -> S] : k \in 0..n}

MaxJudge == 2

JudgeIds == {<<"u1">>, <<"u2">>, <<"zz">>, <<>>}

JudgeResponses ==
    {Response(k, <<>>) : k \in {"raise", "notjson", "notobject", "nofield"}}
    \cup {Response("list", u) : u \in SeqsUpTo(JudgeIds, MaxJudge)}

\* the responses the whole run is tried with
PipeResponses ==
    {Response("raise", <<>>), Response("nofield", <<>>),
     Response("list", << <<"u1">> >>), Response("list", << <<"zz">> >>),
     Response("list", << <<"u2">>, <<"u1">> >>)}

GenResponses == {"raise", "empty", "text2", "text"}

\* Steps 1-2. The weekly flow reports and stops on an empty acquisition.
Clean ==
    /\ pc = "start"
    /\ IF mode = "weekly" /\ IsEmpty(df_raw)
       THEN /\ md' = Report("no_data")
            /\ pc' = "done"
            /\ UNCHANGED df_clean
       ELSE /\ df_clean' = clean(df_raw)
            /\ pc' = "window"
            /\ UNCHANGED md
    /\ UNCHANGED <<mode, now, window_days, shortlist_k, final_n, groq_key,
                metric, prefs, prefsFile, df_raw, df_week, df_hard,
                df_ranked, df_short, resp, chosen, df_top, pref_text,
                files, conc, access>>

\* Step 3 of run_pipeline
WindowApi ==
    /\ pc = "window" /\ mode = "api"
    /\ df_week' = pipeline_upcoming_window(df_clean, now, window_days)
    /\ pc' = "hard"
    /\ UNCHANGED <<mode, now, window_days, shortlist_k, final_n, groq_key,
                metric, prefs, prefsFile, df_raw, df_clean, df_hard,
                df_ranked, df_short, resp, chosen, df_top, pref_text,
                md, files, conc, access>>

\* Step 3 of run: an empty window ends the run with a report
WindowWeekly ==
    /\ pc = "window" /\ mode = "weekly"
    /\ df_week' = weekly_upcoming_window(df_clean, now, window_days)
    /\ IF IsEmpty(df_week')
       THEN md' = Report("no_upcoming") /\ pc' = "done"
       ELSE md' = md /\ pc' = "hard"
    /\ UNCHANGED <<mode, now, window_days, shortlist_k, final_n, groq_key,
                metric, prefs, prefsFile, df_raw, df_clean, df_hard,
                df_ranked, df_short, resp, chosen, df_top, pref_text,
                files, conc, access>>

\* a step 4 without the `if df.empty` return
HardApiNoReturn ==
    /\ pc = "hard" /\ mode = "api"
    /\ df_hard' = pipeline_apply_hard_filters(df_week, GetHard(prefs))
    /\ md' = md /\ pc' = "rank"
    /\ UNCHANGED <<mode, now, window_days, shortlist_k, final_n, groq_key,
                metric, prefs, prefsFile, df_raw, df_clean, df_week,
                df_ranked, df_short, resp, chosen, df_top, pref_text,
                files, conc, access>>

\* Step 4 of run_pipeline, and its `if df.empty` return
HardApi ==
    /\ pc = "hard" /\ mode = "api"
    /\ LET raised == pipeline_hard_raises(df_week, GetHard(prefs))
       IN IF ~IsNA(raised)
          THEN /\ md' = Exception(Val(raised)) /\ pc' = "failed"
               /\ UNCHANGED df_hard
          ELSE /\ df_hard' = pipeline_apply_hard_filters(df_week, GetHard(prefs))
               /\ IF IsEmpty(df_hard')
                  THEN md' = Report("no_matches") /\ pc' = "done"
                  ELSE md' = md /\ pc' = "rank"
    /\ UNCHANGED <<mode, now, window_days, shortlist_k, final_n, groq_key,
                metric, prefs, prefsFile, df_raw, df_clean, df_week,
                df_ranked, df_short, resp, chosen, df_top, pref_text,
                files, conc, access>>

\* Step 4 of run
HardWeekly ==
    /\ pc = "hard" /\ mode = "weekly"
    /\ LET raised == weekly_hard_raises(df_week, prefsFile)
       IN IF ~IsNA(raised)
          THEN /\ md' = Exception(Val(raised)) /\ pc' = "failed"
               /\ UNCHANGED df_hard
          ELSE /\ df_hard' = weekly_apply_hard_filters(df_week, prefsFile)
               /\ IF IsEmpty(df_hard')
                  THEN md' = Report("no_matches") /\ pc' = "done"
                  ELSE md' = md /\ pc' = "rank"
    /\ UNCHANGED <<mode, now, window_days, shortlist_k, final_n, groq_key,
                metric, prefs, prefsFile, df_raw, df_clean, df_week,
                df_ranked, df_short, resp, chosen, df_top, pref_text,
                files, conc, access>>

\* Step 5, rank(df): the embedding call succeeds
RankOk ==
    /\ pc = "rank" /\ ~PrepRaises(df_hard)
    /\ df_ranked' \in rank(df_hard, prefsFile, metric)
    /\ pref_text' = _build_pref_text(_load_preferences(prefsFile))
    /\ files' = [files EXCEPT !["data/pref_text.txt"] = Some(pref_text')]
    /\ pc' = "shortlist"
    /\ UNCHANGED <<mode, now, window_days, shortlist_k, final_n, groq_key,
                metric, prefs, prefsFile, df_raw, df_clean, df_week,
                df_hard, df_short, resp, chosen, df_top, md, conc,
                access>>

\* Step 5: _prep_event_text raises
RankTextRaises ==
    /\ pc = "rank" /\ PrepRaises(df_hard)
    /\ md' = Exception("AttributeError")
    /\ pc' = "failed"
    /\ UNCHANGED <<mode, now, window_days, shortlist_k, final_n, groq_key,
                metric, prefs, prefsFile, df_raw, df_clean, df_week,
                df_hard, df_ranked, df_short, resp, chosen, df_top,
                pref_text, files, conc, access>>

\* Step 5: the embedding capability fails, which is fatal
RankEmbedFails ==
    /\ pc = "rank" /\ ~PrepRaises(df_hard)
    /\ md' = Exception("EmbeddingError")
    /\ pc' = "failed"
    /\ UNCHANGED <<mode, now, window_days, shortlist_k, final_n, groq_key,
                metric, prefs, prefsFile, df_raw, df_clean, df_week,
                df_hard, df_ranked, df_short, resp, chosen, df_top,
                pref_text, files, conc, access>>

\* Step 6
Shortlist ==
    /\ pc = "shortlist"
    /\ df_short' = [df_ranked EXCEPT !.rows = HeadRows(@, shortlist_k)]
    /\ pc' = "weather"
    /\ UNCHANGED <<mode, now, window_days, shortlist_k, final_n, groq_key,
                metric, prefs, prefsFile, df_raw, df_clean, df_week,
                df_hard, df_ranked, resp, chosen, df_top, pref_text,
                md, files, conc, access>>

\* Step 7
Weather ==
    /\ pc = "weather"
    /\ \E wx \in {"up", "down"} : df_short' = enrich_weather(df_short, wx)
    /\ pc' = "select"
    /\ UNCHANGED <<mode, now, window_days, shortlist_k, final_n, groq_key,
                metric, prefs, prefsFile, df_raw, df_clean, df_week,
                df_hard, df_ranked, resp, chosen, df_top, pref_text,
                md, files, conc, access>>

\* the responses of R the judge can give, when it is asked at all
Asked(d, R) == IF groq_key /\ ~IsEmpty(d) /\ ~RowsJsonRaises(d)
               THEN R ELSE {NoResponse}

\* Step 8 of run_pipeline: _write_temp_prefs, the judge, the final selection
SelectApi(R) ==
    /\ pc = "select" /\ mode = "api"
    /\ files' = [files EXCEPT !["data/_prefs_api.json"] = Some(prefs)]
    /\ \E r \in Asked(df_short, R) :
          /\ resp' = r
          /\ chosen' = select_events_with_llm(df_short, groq_key, r)
    /\ IF chosen'.k = "raise"
       THEN /\ md' = Exception(chosen'.what)
            /\ pc' = "failed"
            /\ UNCHANGED df_top
       ELSE /\ df_top' = pipeline_select(df_short, chosen', final_n)
            /\ pc' = "summarize"
            /\ UNCHANGED md
    /\ UNCHANGED <<mode, now, window_days, shortlist_k, final_n, groq_key,
                metric, prefs, prefsFile, df_raw, df_clean, df_week,
                df_hard, df_ranked, df_short, pref_text, conc,
                access>>

\* Step 8 of run: the judge, the final selection and its padding
SelectWeekly(R) ==
    /\ pc = "select" /\ mode = "weekly"
    /\ \E r \in Asked(df_short, R) :
          /\ resp' = r
          /\ chosen' = select_events_with_llm(df_short, groq_key, r)
    /\ IF chosen'.k = "raise"
       THEN /\ md' = Exception(chosen'.what)
            /\ pc' = "failed"
            /\ UNCHANGED df_top
       ELSE /\ df_top' = weekly_select(df_short, chosen', final_n)
            /\ pc' = "order"
            /\ UNCHANGED md
    /\ UNCHANGED <<mode, now, window_days, shortlist_k, final_n, groq_key,
                metric, prefs, prefsFile, df_raw, df_clean, df_week,
                df_hard, df_ranked, df_short, pref_text, files, conc,
                access>>

\* Step 9 of run: order by combined score
OrderWeekly ==
    /\ pc = "order"
    /\ df_top' \in _combine_scores(_add_borough_preference_score(df_top, prefsFile))
    /\ pc' = "summarize"
    /\ UNCHANGED <<mode, now, window_days, shortlist_k, final_n, groq_key,
                metric, prefs, prefsFile, df_raw, df_clean, df_week,
                df_hard, df_ranked, df_short, resp, chosen,
                pref_text, md, files, conc, access>>

\* what the generative capability can do when it is asked at all
Generated(d) == IF groq_key /\ ~IsEmpty(d) /\ ~RowsJsonRaises(d)
                THEN GenResponses ELSE {"unasked"}

\* The end of run_pipeline: summarize_to_markdown, unpacked into md, usage
SummarizeApi ==
    /\ pc = "summarize" /\ mode = "api"
    /\ \E gen \in Generated(df_top) :
          md' = UnpackPair(summarize_to_markdown(df_top, groq_key, gen))
    /\ pc' = IF md'.k = "report" THEN "done" ELSE "failed"
    /\ UNCHANGED <<mode, now, window_days, shortlist_k, final_n, groq_key,
                metric, prefs, prefsFile, df_raw, df_clean, df_week,
                df_hard, df_ranked, df_short, resp, chosen, df_top,
                pref_text, files, conc, access>>

\* Step 10 of run
SummarizeWeekly ==
    /\ pc = "summarize" /\ mode = "weekly"
    /\ \E gen \in Generated(df_top) :
          md' = summarize_to_markdown(df_top, groq_key, gen)
    /\ pc' = IF md'.k = "report" THEN "done" ELSE "failed"
    /\ UNCHANGED <<mode, now, window_days, shortlist_k, final_n, groq_key,
                metric, prefs, prefsFile, df_raw, df_clean, df_week,
                df_hard, df_ranked, df_short, resp, chosen, df_top,
                pref_text, files, conc, access>>

----------------------------------------------------------------------------
(* Inputs *)

MaxShort == 3
MaxFinalN == 2
MaxPipeRows == 2

Event(url, titre, desc, date, arr, cout) ==
    [BaseRow EXCEPT !.url_fiche = url, !.titre = titre, !.description = desc,
                    !.date_debut = date, !.arrondissement = arr, !.cout = cout]

FreeOnlyHF == [EmptyHF EXCEPT !.free_only = Some(TRUE)]

\* rows that differ in their start date only
WindowRows ==
    {[BaseRow EXCEPT !.date_debut = d] :
        d \in {NoDate, BadDate} \cup {DateAt(t) : t \in 0..MaxTime}}

\* frames as clean() hands them to the window filter; the last have no
\* date_debut column at all
WindowFrames ==
    {clean(Frame(RawCols, rows)) : rows \in SeqsUpTo(WindowRows, MaxRows)}
    \cup {clean(Frame(RawCols \ {"date_debut"}, rows)) :
            rows \in SeqsUpTo({BaseRow}, MaxRows)}

CostLabels ==
    {None, Some(<<"Gratuit">>), Some(<<"Free">>), Some(<<"$", "15">>),
     Some(<<"5", "$">>), Some(<<"txt">>), Some(<<"txt", "15">>),
     Some(<<"25", " ", "5">>)}

HardRows ==
    {[BaseRow EXCEPT !.cout = c] : c \in CostLabels}
    \cup {[BaseRow EXCEPT !.cout = Some(<<"Gratuit">>), !.public_cible = a] :
            a \in {Some(<<"Adultes">>), Some(<<"Enfants">>)}}
    \cup {[BaseRow EXCEPT !.arrondissement = Some(<<"Verdun">>)],
          [BaseRow EXCEPT !.arrondissement = Some(<<"verdun">>),
                          !.type_evenement = Some(<<"Concert">>),
                          !.emplacement = Some(<<"En", " ", "ligne">>)]}

HardFrames ==
    {clean(Frame(RawCols, rows)) : rows \in SeqsUpTo(HardRows, MaxRows)}

HardConfigs ==
    {EmptyHF,
     FreeOnlyHF,
     [EmptyHF EXCEPT !.free_only = Some(TRUE), !.max_price = Some(10)],
     [EmptyHF EXCEPT !.max_price = Some(10)],
     [EmptyHF EXCEPT !.max_price = Some(10), !.exclude_children = Some(FALSE)],
     [EmptyHF EXCEPT !.exclude_children = Some(FALSE)],
     [EmptyHF EXCEPT !.audience_allow = << <<"Adultes">> >>],
     [EmptyHF EXCEPT !.arrondissement_allow = << <<"Verdun">> >>],
     [EmptyHF EXCEPT !.type_evenement_allow = << <<"Concert">> >>],
     [EmptyHF EXCEPT !.emplacement_exclude = << <<"en", " ", "ligne">> >>]}

HardPrefs ==
    {Prefs(<<>>, None)} \cup {Prefs(<<>>, Some(c)) : c \in HardConfigs}

\* rows that differ in identifier and description
RankRows ==
    {Event(Some(u), Some(<<"t">>), d, NoDate, None, None) :
        u \in {<<"u1">>, <<"u2">>},
        d \in {None, Some(<<"jazz">>), Some(<<"hockey">>), Some(<<" ", "expo">>)}}

RankFrames ==
    {clean(Frame(RawCols, rows)) : rows \in SeqsUpTo(RankRows, MaxRows)}

LikesFiles ==
    {None, Some(Prefs(<<"jazz">>, None)), Some(Prefs(<<" ">>, None)),
     Some(Prefs(<<"hockey", " ">>, None))}

\* rows of a shortlist: two with the same identifier, one without identifier
SelRows ==
    {Event(Some(<<"u1">>), Some(<<"Jazz">>), Some(<<"jazz">>), DateAt(1),
           Some(<<"Verdun">>), Some(<<"Gratuit">>)),
     Event(Some(<<"u2">>), Some(<<"Hockey">>), Some(<<"hockey">>), DateAt(2),
           Some(<<"LaSalle">>), Some(<<"$", "15">>)),
     Event(Some(<<"u1">>), Some(<<"Expo">>), Some(<<"expo">>), DateAt(1),
           Some(<<"Verdun">>), Some(<<"5", "$">>)),
     Event(None, Some(<<"Expo">>), Some(<<"expo">>), DateAt(2),
           Some(<<"Verdun">>), None)}

\* a shortlist is ranked: its scores do not increase
Scored(rows) ==
    [i \in DOMAIN rows |-> [rows[i] EXCEPT !.score = Some(UnitScale * UnitScale - i)]]

ShortFrames ==
    {LET c == clean(Frame(RawCols, rows))
     IN Frame(c.cols \cup {"score", "temp_c", "rain_prob"}, Scored(c.rows)) :
        rows \in SeqsUpTo(SelRows, MaxShort)}

Typed(row) == [row EXCEPT !.type_evenement = Some(<<"Concert">>)]

\* acquired rows: in the window and free; in the window and priced; with a
\* date that is none; without identifier, borough or cost; with nothing but
\* an identifier and a date
PipeRows ==
    {Typed(Event(Some(<<"u1">>), Some(<<"Jazz">>), Some(<<"jazz">>), DateAt(1),
                 Some(<<"Verdun">>), Some(<<"Gratuit">>))),
     Typed(Event(Some(<<"u2">>), Some(<<"Hockey">>), Some(<<"hockey">>), DateAt(2),
                 Some(<<"LaSalle">>), Some(<<"$", "15">>))),
     Event(Some(<<"u3">>), Some(<<"Expo">>), Some(<<"expo">>), BadDate,
           Some(<<"Verdun">>), Some(<<"Gratuit">>)),
     Event(None, Some(<<"Expo">>), Some(<<"expo">>), DateAt(1), None, None),
     Event(Some(<<"u4">>), None, None, DateAt(1), None, None)}

PipeFrames == {Frame(RawCols, rows) : rows \in SeqsUpTo(PipeRows, MaxPipeRows)}

PipePrefs == {Prefs(<<>>, None), Prefs(<<"jazz">>, Some(FreeOnlyHF))}

PipeFiles == {None, Some(Prefs(<<"hockey">>, Some(FreeOnlyHF)))}

Idle == [r \in {1, 2} |-> [pc |-> "idle", prefs |-> NoPrefs, query |-> <<>>, likes |-> <<>>]]

\* what holds of the variables a specification does not use
Unused(S) ==
    /\ ("cfg" \in S => /\ now = 0 /\ window_days = 0 /\ shortlist_k = 0
                       /\ final_n = 0 /\ groq_key = FALSE /\ metric = "ip")
    /\ ("prefs" \in S => prefs = NoPrefs /\ prefsFile = None)
    /\ ("frames" \in S =>
            /\ df_raw = NoFrame /\ df_clean = NoFrame /\ df_week = NoFrame
            /\ df_hard = NoFrame /\ df_ranked = NoFrame /\ df_short = NoFrame)
    /\ ("out" \in S =>
            /\ resp = NoResponse /\ chosen = ReturnsNone /\ df_top = NoFrame
            /\ pref_text = <<>> /\ md = NoOutcome /\ files = NoFiles)
    /\ ("conc" \in S => conc = Idle /\ access = {})

----------------------------------------------------------------------------
(* A whole run, from the acquired records to the report *)

Init ==
    /\ pc = "start"
    /\ mode \in {"api", "weekly"}
    /\ now = 1
    /\ window_days \in {0, 1}
    /\ shortlist_k \in {1, 2}
    /\ final_n \in 1..MaxFinalN
    /\ groq_key \in BOOLEAN
    /\ metric \in {"ip", "l2"}
    /\ prefsFile \in PipeFiles
    /\ prefs \in IF mode = "api" THEN PipePrefs ELSE {NoPrefs}
    /\ df_raw \in PipeFrames
    /\ df_clean = NoFrame /\ df_week = NoFrame /\ df_hard = NoFrame
    /\ df_ranked = NoFrame /\ df_short = NoFrame
    /\ Unused({"out", "conc"})

Next ==
    \/ Clean
    \/ WindowApi
    \/ WindowWeekly
    \/ HardApi
    \/ HardWeekly
    \/ RankOk
    \/ RankTextRaises
    \/ RankEmbedFails
    \/ Shortlist
    \/ Weather
    \/ SelectApi(PipeResponses)
    \/ SelectWeekly(PipeResponses)
    \/ OrderWeekly
    \/ SummarizeApi
    \/ SummarizeWeekly

Spec == Init /\ [][Next]_vars

----------------------------------------------------------------------------
(* The window filters on their own *)

InitWindow ==
    /\ pc = "window"
    /\ mode \in {"api", "weekly"}
    /\ now \in 0..MaxNow
    /\ window_days \in 0..MaxDays
    /\ shortlist_k = 0 /\ final_n = 0 /\ groq_key = FALSE /\ metric = "ip"
    /\ df_raw = NoFrame
    /\ df_clean \in WindowFrames
    /\ df_week = NoFrame /\ df_hard = NoFrame
    /\ df_ranked = NoFrame /\ df_short = NoFrame
    /\ Unused({"prefs", "out", "conc"})

NextWindow == WindowApi \/ WindowWeekly

SpecWindow == InitWindow /\ [][NextWindow]_vars

----------------------------------------------------------------------------
(* The hard filters on their own *)

InitHard ==
    /\ pc = "hard"
    /\ mode \in {"api", "weekly"}
    /\ \E p \in HardPrefs :
          \/ mode = "api" /\ prefs = p /\ prefsFile = None
          \/ mode = "weekly" /\ prefs = NoPrefs /\ prefsFile \in {None, Some(p)}
    /\ df_raw = NoFrame /\ df_clean = NoFrame
    /\ df_week \in HardFrames
    /\ df_hard = NoFrame /\ df_ranked = NoFrame /\ df_short = NoFrame
    /\ Unused({"cfg", "out", "conc"})

NextHard == HardApi \/ HardWeekly

SpecHard == InitHard /\ [][NextHard]_vars

----------------------------------------------------------------------------
(* The ranker on its own *)

InitRank ==
    /\ pc = "rank"
    /\ mode \in {"api", "weekly"}
    /\ now = 0 /\ window_days = 0 /\ shortlist_k = 0 /\ final_n = 0
    /\ groq_key = FALSE
    /\ metric \in {"ip", "l2"}
    /\ prefs = NoPrefs
    /\ prefsFile \in LikesFiles
    /\ df_raw = NoFrame /\ df_clean = NoFrame /\ df_week = NoFrame
    /\ df_hard \in RankFrames
    /\ df_ranked = NoFrame /\ df_short = NoFrame
    /\ Unused({"out", "conc"})

NextRank == RankOk \/ RankTextRaises \/ RankEmbedFails

SpecRank == InitRank /\ [][NextRank]_vars

----------------------------------------------------------------------------
(* The judge selection on its own *)

InitSelect ==
    /\ pc = "select"
    /\ mode \in {"api", "weekly"}
    /\ now = 0 /\ window_days = 0 /\ shortlist_k = MaxShort
    /\ final_n \in 0..MaxFinalN
    /\ groq_key \in BOOLEAN
    /\ metric = "ip"
    /\ df_raw = NoFrame /\ df_clean = NoFrame /\ df_week = NoFrame
    /\ df_hard = NoFrame /\ df_ranked = NoFrame
    /\ df_short \in ShortFrames
    /\ Unused({"prefs", "out", "conc"})

NextSelect == SelectApi(JudgeResponses) \/ SelectWeekly(JudgeResponses)

SpecSelect == InitSelect /\ [][NextSelect]_vars

----------------------------------------------------------------------------
(* Two concurrent API requests: what run_pipeline reads and writes outside *)
(* its own locals                                                          *)

Runs == {1, 2}

ConcPrefs ==
    {Prefs(<<>>, None), Prefs(<<"jazz">>, None), Prefs(<<"hockey", " ", "nhl">>, None)}

\* one access of a run to a file; derived: the data written comes from the
\* preferences passed to that run
Access(r, path, op, derived) ==
    [run |-> r, path |-> path, op |-> op, derived |-> derived]

\* the length of the JSON text of preferences
JsonLen(p) == Len(p.likes)

\* A file is the sequence of the documents whose bytes it holds: empty after
\* open(path, "w"), one document after a write, and the new document
\* followed by the rest of a longer one that another descriptor wrote.
WriteAtStart(content, p) ==
    IF content # <<>> /\ JsonLen(content[1]) > JsonLen(p)
    THEN <<p, content[1]>> ELSE <<p>>

InitConc ==
    /\ pc = "requests"
    /\ mode = "api"
    /\ now = 0 /\ window_days = 0 /\ shortlist_k = 0 /\ final_n = 0
    /\ groq_key \in BOOLEAN
    /\ metric = "ip"
    /\ prefs = NoPrefs
    /\ prefsFile \in {None, Some(Prefs(<<"expo">>, None))}
    /\ conc \in [Runs -> {[pc |-> "rank", prefs |-> p, query |-> <<>>, likes |-> <<>>] :
                            p \in ConcPrefs}]
    /\ access = {}
    /\ Unused({"frames", "out"})

\* rank(df): _load_preferences reads preferences.json; _rank_faiss writes
\* data/pref_text.txt
ConcRank(r) ==
    /\ conc[r].pc = "rank"
    /\ LET q == _build_pref_text(_load_preferences(prefsFile))
       IN /\ conc' = [conc EXCEPT ![r].query = q, ![r].pc = "open"]
          /\ files' = [files EXCEPT !["data/pref_text.txt"] = Some(q)]
    /\ access' = access \cup {Access(r, "preferences.json", "r", FALSE),
                              Access(r, "data/pref_text.txt", "w", FALSE)}
    /\ UNCHANGED <<pc, mode, now, window_days, shortlist_k, final_n,
                groq_key, metric, prefs, prefsFile, df_raw, df_clean,
                df_week, df_hard, df_ranked, df_short, resp, chosen,
                df_top, pref_text, md>>

\* _write_temp_prefs: open("data/_prefs_api.json", "w") truncates the file
ConcOpen(r) ==
    /\ conc[r].pc = "open"
    /\ files' = [files EXCEPT !["data/_prefs_api.json"] = <<>>]
    /\ conc' = [conc EXCEPT ![r].pc = "dump"]
    /\ UNCHANGED <<pc, mode, now, window_days, shortlist_k, final_n,
                groq_key, metric, prefs, prefsFile, df_raw, df_clean,
                df_week, df_hard, df_ranked, df_short, resp, chosen,
                df_top, pref_text, md, access>>

\* _write_temp_prefs: json.dump(preferences, f) and the close
ConcDump(r) ==
    /\ conc[r].pc = "dump"
    /\ files' = [files EXCEPT !["data/_prefs_api.json"] =
                                  WriteAtStart(@, conc[r].prefs)]
    /\ access' = access \cup {Access(r, "data/_prefs_api.json", "w", TRUE)}
    /\ conc' = [conc EXCEPT ![r].pc = "select"]
    /\ UNCHANGED <<pc, mode, now, window_days, shortlist_k, final_n,
                groq_key, metric, prefs, prefsFile, df_raw, df_clean,
                df_week, df_hard, df_ranked, df_short, resp, chosen,
                df_top, pref_text, md>>

\* select_events_with_llm(df_short, prefs_path="preferences.json"): with a
\* credential it reads the likes it shows the judge from preferences.json
ConcSelect(r) ==
    /\ conc[r].pc = "select"
    /\ IF groq_key
       THEN /\ conc' = [conc EXCEPT ![r].likes = Strip(_load_preferences(prefsFile).likes),
                                    ![r].pc = "done"]
            /\ access' = access \cup {Access(r, "preferences.json", "r", FALSE)}
       ELSE /\ conc' = [conc EXCEPT ![r].pc = "done"]
            /\ UNCHANGED access
    /\ UNCHANGED <<pc, mode, now, window_days, shortlist_k, final_n,
                groq_key, metric, prefs, prefsFile, df_raw, df_clean,
                df_week, df_hard, df_ranked, df_short, resp, chosen,
                df_top, pref_text, md, files>>

NextConc ==
    \E r \in Runs : ConcRank(r) \/ ConcOpen(r) \/ ConcDump(r) \/ ConcSelect(r)

SpecConc == InitConc /\ [][NextConc]_vars

----------------------------------------------------------------------------
(* The preference-weight blender on its own, applied twice *)

\* selected rows: with and without a borough, with the scores of the ranker
BlendRows ==
    {[Event(Some(<<"u1">>), Some(<<"t">>), Some(<<"d">>), DateAt(1), a, None)
         EXCEPT !.score = Some(s)] :
        a \in {None, Some(<<"Verdun">>), Some(<<"LaSalle">>)},
        s \in {12, 20, 24}}

BlendFrames ==
    {LET c == clean(Frame(RawCols, rows))
     IN Frame(c.cols \cup {"score", "temp_c", "rain_prob"}, c.rows) :
        rows \in SeqsUpTo(BlendRows, MaxRows)}

\* preferences.json: missing, or with a borough order
BlendFiles ==
    {None}
    \cup {Some(Prefs(<<>>, Some([EmptyHF EXCEPT !.arrondissement_allow = o]))) :
            o \in {<< <<"Verdun">> >>, << <<"Verdun">>, <<"LaSalle">> >>,
                   << <<"lasalle">>, <<"Verdun">> >>}}

\* Step 9 of run, applied to its own result
OrderAgain ==
    /\ pc = "summarize" /\ mode = "weekly"
    /\ df_top' \in _combine_scores(_add_borough_preference_score(df_top, prefsFile))
    /\ pc' = "reordered"
    /\ UNCHANGED <<mode, now, window_days, shortlist_k, final_n, groq_key,
                metric, prefs, prefsFile, df_raw, df_clean, df_week,
                df_hard, df_ranked, df_short, resp, chosen,
                pref_text, md, files, conc, access>>

InitBlend ==
    /\ pc = "order"
    /\ mode = "weekly"
    /\ prefs = NoPrefs
    /\ prefsFile \in BlendFiles
    /\ df_top \in BlendFrames
    /\ resp = NoResponse /\ chosen = ReturnsNone
    /\ pref_text = <<>> /\ md = NoOutcome /\ files = NoFiles
    /\ Unused({"cfg", "frames", "conc"})

NextBlend == OrderWeekly \/ OrderAgain

SpecBlend == InitBlend /\ [][NextBlend]_vars

----------------------------------------------------------------------------
(* The digest composer on its own *)

\* selected rows: those of a shortlist, and one with every optional field
\* absent
SumRows == SelRows \cup {BaseRow}

SumFrames ==
    {LET c == clean(Frame(RawCols, rows))
     IN Frame(c.cols \cup {"score", "temp_c", "rain_prob"}, Scored(c.rows)) :
        rows \in SeqsUpTo(SumRows, MaxRows)}

InitSummarize ==
    /\ pc = "summarize"
    /\ mode \in {"api", "weekly"}
    /\ now = 0 /\ window_days = 0 /\ shortlist_k = 0 /\ final_n = 0
    /\ groq_key \in BOOLEAN
    /\ metric = "ip"
    /\ df_top \in SumFrames
    /\ resp = NoResponse /\ chosen = ReturnsNone
    /\ pref_text = <<>> /\ md = NoOutcome /\ files = NoFiles
    /\ Unused({"prefs", "frames", "conc"})

NextSummarize == SummarizeApi \/ SummarizeWeekly

SpecSummarize == InitSummarize /\ [][NextSummarize]_vars

----------------------------------------------------------------------------
(* The hard filters on rule values of the wrong type *)

\* rule sets of which the rules in w hold a value of the wrong type; the
\* sets with w = {} are well formed
MalformedConfigs ==
    LET withWrong(c, w) ==
            [f \in DOMAIN c |->
                IF f = "wrong" THEN w ELSE IF f \in w THEN EmptyHF[f] ELSE c[f]]
    IN {withWrong(c, w) :
          c \in {EmptyHF,
                 [EmptyHF EXCEPT !.max_price = Some(10),
                                 !.arrondissement_allow = << <<"Verdun">> >>]},
          w \in {{}, {"arrondissement_allow"}, {"type_evenement_allow"},
                 {"audience_allow"}, {"max_price"},
                 {"emplacement_exclude", "max_price"}}}

InitMalformed ==
    /\ pc = "hard"
    /\ mode \in {"api", "weekly"}
    /\ \E c \in MalformedConfigs :
          \/ mode = "api" /\ prefs = Prefs(<<>>, Some(c)) /\ prefsFile = None
          \/ mode = "weekly" /\ prefs = NoPrefs
             /\ prefsFile = Some(Prefs(<<>>, Some(c)))
    /\ df_raw = NoFrame /\ df_clean = NoFrame
    /\ df_week \in HardFrames
    /\ df_hard = NoFrame /\ df_ranked = NoFrame /\ df_short = NoFrame
    /\ Unused({"cfg", "out", "conc"})

NextMalformed == HardApi \/ HardWeekly

SpecMalformed == InitMalformed /\ [][NextMalformed]_vars

----------------------------------------------------------------------------
(* Claims about the whole run (Spec) *)

Ended == pc \in {"done", "failed"}

\* rank() has returned: the filtered set was not empty and the embedding
\* call succeeded
Ranked == df_ranked # NoFrame

\* C1: a run whose filtered record set is not empty, whose embedding call
\* succeeds and that has no credential for the judge and the generator ends
\* with the deterministic fallback report, never with an exception.
C1_FallbackReport ==
    (Ended /\ Ranked /\ ~groq_key) => md = Report("fallback")

\* the Preference Configuration of the run: the preferences passed to
\* run_pipeline, preferences.json for the weekly flow
OwnPrefs == IF mode = "api" THEN prefs ELSE _load_preferences(prefsFile)

\* C5: the query text of the ranker is the likes of the run's own
\* Preference Configuration, and the fixed default exactly when that likes
\* is empty.
C5_OwnLikes ==
    Ranked =>
        /\ pref_text = IF OwnPrefs.likes = <<>> THEN DefaultPrefText ELSE OwnPrefs.likes
        /\ (pref_text = DefaultPrefText <=> OwnPrefs.likes = <<>>)

----------------------------------------------------------------------------
(* Claims about the judge selection (SpecSelect) *)

\* the final selection is built and not yet re-ordered for display
Selected == pc = IF mode = "api" THEN "summarize" ELSE "order"

IsRowOf(row, d) == \E j \in DOMAIN d.rows : d.rows[j] = row

\* C2: the list select_events_with_llm returns holds only identifiers that
\* are the url_fiche of a shortlist record, and the final selection holds
\* only shortlist records, whatever the raw response lists.
C2_OnlyShortlistIds ==
    Selected =>
        /\ chosen.k = "list" =>
              \A i \in DOMAIN chosen.urls :
                  \E j \in DOMAIN df_short.rows :
                      df_short.rows[j].url_fiche = Some(chosen.urls[i])
        /\ \A i \in DOMAIN df_top.rows : IsRowOf(df_top.rows[i], df_short)

\* C3: when the judge selector signals failure (it returns None: no
\* credential, the call raised, the response did not parse), the final
\* selection, before the display re-ordering, is the first final_n rows of
\* the shortlist in their order, all of them when there are fewer.
C3_FallbackTopN ==
    (Selected /\ chosen.k = "none") =>
        df_top.rows = SubSeq(df_short.rows, 1, Min(final_n, Len(df_short.rows)))

\* the judge answered with text that is no JSON, and a shortlist of three
\* was cut to its first two
C3_Witness ==
    /\ Selected /\ chosen.k = "none" /\ resp.k = "notjson"
    /\ Len(df_short.rows) = 3 /\ final_n = 2
    /\ df_top.rows = <<df_short.rows[1], df_short.rows[2]>>

----------------------------------------------------------------------------
(* Claims about the ranker (SpecRank) *)

\* the similarity of a record's own text to the query text
OwnSimilarity(row) ==
    Dot(_l2_normalize(Embed(_prep_event_text(df_ranked.cols, row))),
        _l2_normalize(Embed(pref_text)))

\* C4: after the ranker has run, the score of each record is the similarity
\* of its own text to the preference text, and a record whose own similarity
\* is higher comes before one whose own similarity is lower.
C4_OwnScore ==
    (pc = "shortlist") =>
        /\ \A i \in DOMAIN df_ranked.rows :
              df_ranked.rows[i].score = Some(OwnSimilarity(df_ranked.rows[i]))
        /\ \A i, j \in DOMAIN df_ranked.rows :
              OwnSimilarity(df_ranked.rows[i]) > OwnSimilarity(df_ranked.rows[j])
                  => i < j

----------------------------------------------------------------------------
(* Claims about concurrent requests (SpecConc) *)

TextOf(p) == _build_pref_text(p)

\* C6: two concurrent requests with different preferences share no mutable
\* state derived from them: no run writes data derived from its preferences
\* to a file the other run writes or reads, and the ranking query and the
\* judge input of a run come from its own configuration.
C6_NoSharedState ==
    conc[1].prefs # conc[2].prefs =>
        /\ \A a, b \in access :
              ~(a.run # b.run /\ a.path = b.path /\ a.op = "w" /\ a.derived)
        /\ \A r \in Runs :
              conc[r].pc \notin {"idle", "rank"} =>
                  conc[r].query \in {TextOf(conc[r].prefs),
                                     TextOf(_load_preferences(prefsFile))}

----------------------------------------------------------------------------
(* Claims about the window filters (SpecWindow) *)

HasStart(r) == r.date_debut.k = "ok"
StartOf(r) == r.date_debut.t

InNowWindow(r) ==
    /\ HasStart(r)
    /\ now <= StartOf(r)
    /\ StartOf(r) < now + window_days * TicksPerDay

MidnightOf(t) == t - (t % TicksPerDay)

InTodayWindow(r) ==
    /\ HasStart(r)
    /\ StartOf(r) \notin DstTicks
    /\ MidnightOf(now) <= StartOf(r)
    /\ StartOf(r) < MidnightOf(now) + window_days * TicksPerDay

----------------------------------------------------------------------------
(* Claims about the hard filters (SpecHard) *)

\* the rule set the filter under study works with
RulesInForce == IF mode = "api" THEN GetHard(prefs) ELSE LoadHard(prefsFile)

LabelOf(r) == Lower(FillNa(r.cout))

HasFreeKeyword(r) ==
    Contains(LabelOf(r), <<"gratuit">>) \/ Contains(LabelOf(r), <<"free">>)

HasNumber(r) == \E i \in DOMAIN LabelOf(r) : LabelOf(r)[i] \in NumLex

FirstNumberOf(r) ==
    LET s == LabelOf(r)
        i == CHOOSE j \in DOMAIN s :
                s[j] \in NumLex /\ \A k \in 1..(j - 1) : s[k] \notin NumLex
    IN NumVal(s[i])

ForChildren(r) ==
    \E i \in DOMAIN FillNa(r.public_cible) :
        LowerLex(FillNa(r.public_cible)[i]) \in {"enfants", "jeunesse", "jeunes", "ados"}

NotForChildren(r) == ~ForChildren(r)

C9_FreeOnly ==
    (pc # "hard" /\ RulesInForce.free_only = Some(TRUE)) =>
        \A i \in DOMAIN df_hard.rows : HasFreeKeyword(df_hard.rows[i])

PricePasses(r) ==
    \/ HasFreeKeyword(r)
    \/ ~HasNumber(r)
    \/ FirstNumberOf(r) <= Val(RulesInForce.max_price)

\* C10: when max_price is the only rule in force, the hard filter keeps
\* exactly the records whose cost label has a free keyword, or has no number
\* (an absent label included), or whose first number is <= max_price.
C10_MaxPrice ==
    (/\ pc # "hard"
     /\ ~IsNA(RulesInForce.max_price)
     /\ RulesInForce =
          [EmptyHF EXCEPT !.max_price = RulesInForce.max_price,
                          !.exclude_children = Some(FALSE)])
    => df_hard.rows = SelectSeq(df_week.rows, PricePasses)

----------------------------------------------------------------------------
(* Claims about absent fields in the hard filters (SpecHard) *)

\* the four fields the list predicates read are all absent in the record
ListFieldsAbsent(r) ==
    /\ IsNA(r.arrondissement) /\ IsNA(r.type_evenement)
    /\ IsNA(r.emplacement) /\ IsNA(r.public_cible)

NoPriceRule == IsNA(RulesInForce.max_price) /\ IsNA(RulesInForce.free_only)

\* C11: a record whose borough, event type, location and audience are absent
\* is excluded by none of the four list predicates, whichever of their rules
\* are configured: with no price rule in force the hard filter keeps every
\* such record.
C11_AbsentFieldPasses ==
    (pc # "hard" /\ NoPriceRule) =>
        SelectSeq(df_hard.rows, ListFieldsAbsent)
            = SelectSeq(df_week.rows, ListFieldsAbsent)

----------------------------------------------------------------------------
(* Claims about records without a start time (SpecWindow) *)

\* C12: the window filter excludes every record whose start time is absent
\* or unparsable, also when the start-time column is missing altogether:
\* every record it retains carries a start time.
C12_NoStartExcluded ==
    pc # "window" => \A i \in DOMAIN df_week.rows : HasStart(df_week.rows[i])

----------------------------------------------------------------------------
(* Claims about empty record sets (Spec) *)

\* a stage the run has gone through has left no record
EmptyStage ==
    \/ IsEmpty(df_raw)
    \/ pc \notin {"start", "window"} /\ IsEmpty(df_week)
    \/ pc \notin {"start", "window", "hard"} /\ IsEmpty(df_hard)

\* the reports the drivers write for an empty record set: no data acquired,
\* no upcoming event, no event matching the filters
EmptyReports == {Report("no_data"), Report("no_upcoming"), Report("no_matches")}

\* C13: once the acquisition, the window filter or the hard filter has left
\* an empty record set, the run makes no ranking, judging or generation call
\* and raises nothing: it is still filtering, or it has ended with the
\* report for an empty result.
C13_EmptyEndsInReport ==
    EmptyStage =>
        /\ pc \in {"start", "window", "hard", "done"}
        /\ df_ranked = NoFrame /\ pref_text = <<>>
        /\ resp = NoResponse /\ df_top = NoFrame
        /\ pc = "done" => md \in EmptyReports

\* an API run whose window filter removed every acquired record has ended
\* with the no-matches report
C13_Witness ==
    /\ mode = "api" /\ pc = "done"
    /\ ~IsEmpty(df_raw) /\ IsEmpty(df_week) /\ IsEmpty(df_hard)
    /\ md = Report("no_matches")

----------------------------------------------------------------------------
(* Claims about the judge's response (SpecSelect) *)

\* the judge was called and select_events_with_llm has returned
JudgeAnswered == pc \in {"summarize", "order"} /\ resp # NoResponse

\* C15: select_events_with_llm returns None for every response that is no
\* JSON, no JSON object, or an object without selected_urls, and returns a
\* list for every response that has the field, whatever identifiers it names.
C15_ParseFailureIsNone ==
    JudgeAnswered =>
        /\ resp.k \in {"notjson", "notobject", "nofield"} => chosen = ReturnsNone
        /\ resp.k = "list" => chosen.k = "list"

----------------------------------------------------------------------------
(* Claims about the padding of the weekly flow (SpecSelect) *)

\* the record carries an identifier the judge selector returned
HasChosenId(row) ==
    \E i \in DOMAIN chosen.urls : row.url_fiche = Some(chosen.urls[i])

HasNoChosenId(row) == ~HasChosenId(row)

\* how often the record occurs in the rows
Count(row, rows) == Cardinality({i \in DOMAIN rows : rows[i] = row})

\* the judge selector returned a list that is not empty, of identifiers of
\* shortlist records only, which selects fewer than final_n records
SelectsTooFew ==
    /\ mode = "weekly" /\ pc = "order"
    /\ chosen.k = "list" /\ chosen.urls # <<>>
    /\ \A i \in DOMAIN chosen.urls :
          \E j \in DOMAIN df_short.rows :
              df_short.rows[j].url_fiche = Some(chosen.urls[i])
    /\ Len(SelectSeq(df_short.rows, HasChosenId)) < final_n

\* C14: in the weekly flow, a selection of fewer than final_n records is
\* padded with the earliest shortlist records whose identifier was not
\* chosen, in shortlist order, up to min(final_n, size of the shortlist)
\* records, and no record occurs more often than in the shortlist.
C14_Padding ==
    SelectsTooFew =>
        LET top == SelectSeq(df_short.rows, HasChosenId)
            rest == SelectSeq(df_short.rows, HasNoChosenId)
        IN /\ Len(df_top.rows) = Min(final_n, Len(df_short.rows))
           /\ df_top.rows = top \o SubSeq(rest, 1, Len(df_top.rows) - Len(top))
           /\ \A i \in DOMAIN df_top.rows :
                 Count(df_top.rows[i], df_top.rows)
                     <= Count(df_top.rows[i], df_short.rows)

\* the judge chose the second of three shortlist records and the first was
\* added to reach final_n = 2
C14_Witness ==
    /\ SelectsTooFew /\ final_n = 2 /\ Len(df_short.rows) = 3
    /\ HasNoChosenId(df_short.rows[1]) /\ HasChosenId(df_short.rows[2])
    /\ HasNoChosenId(df_short.rows[3])
    /\ df_top.rows = <<df_short.rows[2], df_short.rows[1]>>

----------------------------------------------------------------------------
(* Claims about the order of equal scores (SpecRank) *)

\* p lists, for each ranked row, the position it had in the ranker's input
IsInputPosition(p) ==
    \A i \in DOMAIN df_ranked.rows :
        [df_ranked.rows[i] EXCEPT !.score = None] = df_hard.rows[p[i]]

\* C16: the ranker's sort is stable: of two records with the same computed
\* score, the one that came first in the input comes first in the output.
C16_StableSort ==
    pc = "shortlist" =>
        \E p \in Perms(Len(df_hard.rows)) :
            /\ IsInputPosition(p)
            /\ \A i, j \in DOMAIN df_ranked.rows :
                  (i < j /\ df_ranked.rows[i].score = df_ranked.rows[j].score)
                      => p[i] < p[j]

----------------------------------------------------------------------------
(* Claims about the blender applied twice (SpecBlend) *)

\* C17: applying the blender (_add_borough_preference_score, then
\* _combine_scores) to its own result leaves every record with the
\* combined_score, and all other fields, the first application gave it.
C17_Idempotent ==
    [][(pc = "summarize" /\ pc' = "reordered") =>
          /\ Len(df_top'.rows) = Len(df_top.rows)
          /\ \A i \in DOMAIN df_top.rows :
                Count(df_top.rows[i], df_top'.rows)
                    = Count(df_top.rows[i], df_top.rows)]_vars

\* blended twice: two records of different boroughs, the one of the less
\* preferred borough first because of its higher score
C17_Witness ==
    /\ pc = "reordered" /\ Len(df_top.rows) = 2
    /\ Val(df_top.rows[1].score) > Val(df_top.rows[2].score)
    /\ Val(df_top.rows[1].borough_pref) > 0
    /\ Val(df_top.rows[2].borough_pref) > Val(df_top.rows[1].borough_pref)
    /\ CombinedKey(df_top.rows[1]) > CombinedKey(df_top.rows[2])

----------------------------------------------------------------------------
(* Claims about records without optional fields (SpecSummarize) *)

\* title, borough, event type, start time, cost, weather, identifier and
\* description of the record are all absent
AllOptionalAbsent(r) ==
    /\ IsNA(r.titre) /\ IsNA(r.arrondissement) /\ IsNA(r.type_evenement)
    /\ IsNA(r.start_datetime) /\ IsNA(r.cout) /\ ~r.is_free
    /\ IsNA(r.temp_c) /\ IsNA(r.rain_prob)
    /\ IsNA(r.url_fiche) /\ IsNA(r.description)

\* C18: with the generative capability unavailable, summarize_to_markdown
\* returns the fallback report, without raising, for a selected record set
\* that holds a record with every optional field absent (the weekly flow
\* hands the result on as it is).
C18_AbsentFieldsRender ==
    (/\ mode = "weekly" /\ pc \in {"done", "failed"} /\ ~groq_key
     /\ \E i \in DOMAIN df_top.rows : AllOptionalAbsent(df_top.rows[i]))
    => md = Report("fallback")

----------------------------------------------------------------------------
(* Claims about the records kept from stage to stage (Spec) *)

\* r and q are one acquired record, whatever later stages annotated
SameAcquired(r, q) == \A c \in RawCols : r[c] = q[c]

Occurrences(r, rows) ==
    Cardinality({i \in DOMAIN rows : SameAcquired(rows[i], r)})

\* every record of d is a record of src, no more often than in src
OnlyRecordsOf(d, src) ==
    /\ Len(d.rows) <= Len(src.rows)
    /\ \A i \in DOMAIN d.rows :
          /\ \E j \in DOMAIN src.rows : SameAcquired(src.rows[j], d.rows[i])
          /\ Occurrences(d.rows[i], d.rows) <= Occurrences(d.rows[i], src.rows)

Identifiers(d) == {d.rows[i].url_fiche : i \in DOMAIN d.rows}

\* C19: in every state of a run the records held after a stage are records
\* of that stage's input, held no more often than there and never more of
\* them: final selection within shortlist, within the ranked set, within the
\* hard-filtered set, within the windowed set, within the cleaned set,
\* within the acquired set; no identifier is held that was not acquired.
C19_OnlyRemoveOrAnnotate ==
    /\ OnlyRecordsOf(df_clean, df_raw)
    /\ OnlyRecordsOf(df_week, df_clean)
    /\ OnlyRecordsOf(df_hard, df_week)
    /\ OnlyRecordsOf(df_ranked, df_hard)
    /\ OnlyRecordsOf(df_short, df_ranked)
    /\ OnlyRecordsOf(df_top, df_short)
    /\ \A d \in {df_clean, df_week, df_hard, df_ranked, df_short, df_top} :
          Identifiers(d) \subseteq Identifiers(df_raw)

\* a weekly run in which the ranker and the blender annotated both acquired
\* records, the judge chose one of the two shortlisted records and the
\* padding added the other
C19_Witness ==
    /\ pc = "summarize" /\ mode = "weekly"
    /\ Len(df_week.rows) = Len(df_raw.rows)
    /\ Len(df_short.rows) = 2
    /\ IsChosen(chosen) /\ Len(RowsChosen(df_short, chosen.urls)) = 1
    /\ Len(df_top.rows) = 2
    /\ \A i \in DOMAIN df_top.rows :
          ~IsNA(df_top.rows[i].score) /\ ~IsNA(df_top.rows[i].combined_score)

----------------------------------------------------------------------------
(* Claims about rule values of the wrong type (SpecMalformed) *)

\* what the hard filter returns for the rule set without the rules in wrong
WithoutWrongRules ==
    LET hard == [RulesInForce EXCEPT !.wrong = {}]
    IN IF mode = "api" THEN pipeline_apply_hard_filters(df_week, hard)
       ELSE weekly_apply_hard_filters(df_week, Some(Prefs(<<>>, Some(hard))))

\* C20: when a rule holds a value of the wrong type, the hard filter, in
\* both implementations, raises nothing and returns what it returns without
\* that rule.
C20_WrongTypeIsAbsent ==
    (pc # "hard" /\ RulesInForce.wrong # {})
    => /\ md.k # "exception"
       /\ df_hard = WithoutWrongRules

----------------------------------------------------------------------------
(* Claims about the size of the final selection (SpecSelect) *)

\* C21: whatever the judge returned, the final selection handed on towards
\* the digest composer holds at most final_n records.
C21_AtMostFinalN ==
    Selected => Len(df_top.rows) <= final_n

============================================================================
